---- MODULE Spec2Model ----
(***************************************************************************)
(* Model of the authentication controller of the passbolt browser          *)
(* extension (src/all/background_page/controller/authController.js).       *)
(*                                                                         *)
(* Every login() call is one AuthController instance ("run").  The         *)
(* background page is a single threaded event loop: a run is suspended     *)
(* only at its awaits, so one action is the code executed between two      *)
(* awaits.  The worker registry, the configuration, the user settings and  *)
(* the remembered passphrase are process wide and shared by the runs.      *)
(***************************************************************************)
EXTENDS Naturals, Sequences, FiniteSets

\* Number of browser tabs.
MaxTab == 2

Tabs == 1 .. MaxTab

\* ------------------------------------------------------------------------
\* Values

\* The workers that request a login: the login form (a page mod named
\* AuthForm), another page mod, and the quick access (no page mod).
OriginWorkers ==
  [hasPageMod : {TRUE}, name : {"AuthForm", "App"}, tab : Tabs]
    \cup [hasPageMod : {FALSE}, name : {"QuickAccess"}, tab : Tabs]

Passphrases == {"pass-a", "pass-b"}

\* The values of the remember argument: false, undefined, true or a number of
\* seconds.
RememberValues == {"false", "undefined", "true", "300"}

\* A string is a sequence of tokens; the origin of a URL is one token.
Origin == "https://example.org"

\* JavaScript values given as redirect argument.
RedirectValues ==
  { [type |-> "undefined", str |-> <<>>],
    [type |-> "number", str |-> <<>>],
    [type |-> "string", str |-> <<>>],
    [type |-> "string", str |-> <<"a", "/">>],
    [type |-> "string", str |-> <<"/", "a">>] }

\* The values Config.read('user.settings.trustedDomain') can return: a URL
\* without path, a URL with a path, a string that is no URL, undefined.
TrustedDomainValues ==
  { [type |-> "string", str |-> <<Origin>>],
    [type |-> "string", str |-> <<Origin, "/", "app">>],
    [type |-> "string", str |-> <<"example.org">>],
    [type |-> "undefined", str |-> <<>>] }

\* this._tabId before _beforeLogin assigns it.
NoTab == 0

\* The attempt counts a failure is reported with.
MaxAttempts == 4

VARIABLES
  runs,            \* the AuthController instances, by run
  workers,         \* the worker registry: the entries <<name, tabId, port>>
  trustedDomain,   \* Config: user.settings.trustedDomain
  settings,        \* user.settings: "unset", "synced" or "defaults"
  remembered       \* the remembered passphrase cache of the User singleton

authVars == <<runs, workers, trustedDomain, settings, remembered>>

\* The other components, each with the variables of its own specification.
VARIABLES
  lastOp,          \* worker registry: the last register or unregister call
  dialog,          \* passphrase dialog: its DOM and the completions it received
  bridge,          \* page bridge: its requests and what it sent to each side
  bus,             \* message bus: the handlers registered and the last call
  verifies,        \* the AuthController instances that run verify()
  config,           \* Settings: the config store and the last call
  autocomplete     \* edit-group autocomplete: its classes, users and renderings

\* The variables of the components other than the login controller and the
\* worker registry.
restVars == <<dialog, bridge, bus, verifies, config, autocomplete>>

vars == <<runs, workers, trustedDomain, settings, remembered, lastOp, dialog,
          bridge, bus, verifies, config, autocomplete>>

\* No call of the registry yet.
NoOp == [op |-> "none", name |-> "", tabId |-> NoTab, port |-> 0,
         before |-> {}]

\* The DOM the handlers of the passphrase dialog act on: the class processing
\* of the submit button, the class error of the label of the passphrase field
\* and the template loaded in the dialog.
DialogDom == [processing |-> FALSE, labelError |-> FALSE, view |-> "form"]

\* No click and no key yet.  An input of the user is the passphrase entered,
\* the state of the remember box, what the handler sent to the add-on and
\* whether it threw.
NoDialogInput == [kind |-> "none", entered |-> "", checked |-> FALSE,
                  emitted |-> <<>>, threw |-> FALSE]

\* The dialog once init() has loaded masterPassword.ejs, no completion
\* received; before is the DOM the last completion found and after the DOM
\* it left; input is the click or key handled last.
DialogLoaded == [dom |-> DialogDom, received |-> <<>>, before |-> DialogDom,
                 after |-> DialogDom, input |-> NoDialogInput]

\* No input of the page bridge yet.
NoInput == [kind |-> "none", name |-> "", id |-> 0, status |-> "",
            requests |-> <<>>, sent |-> 0, page |-> 0]

\* The page bridge once its listeners are installed: requests are the calls
\* of passbolt.request(), by request id; sent is what went to the add-on,
\* page the events emitted to the page; last is the input handled last, with
\* the requests and the lengths of sent and page it found.
BridgeIdle == [inputs |-> 0, requests |-> <<>>, sent |-> <<>>, page |-> <<>>,
               last |-> NoInput]

\* The channels of the edit-group autocomplete.
BusChannels ==
  { "passbolt.group.edit-autocomplete.loading",
    "passbolt.group.edit-autocomplete.load-users",
    "passbolt.group.edit-autocomplete.reset" }

\* The message bus of a context before any on(): listeners are the handlers
\* of each channel, registered the calls of on() in their order, last the
\* call made last with the handlers an emit invoked.
BusEmpty ==
  [listeners |-> [c \in BusChannels |-> <<>>], registered |-> <<>>,
   last |-> [op |-> "none", channel |-> "", invoked |-> <<>>]]

\* The requests of a verification of the server key.
MaxVerify == 2

\* A controller before verify() is called: error is the message of the error
\* auth.verify() rejected with, out what the controller emitted.
VerifyIdle ==
  [pc |-> "idle", worker |-> [hasPageMod |-> FALSE, name |-> "", tab |-> NoTab],
   requestId |-> 0, error |-> [type |-> "undefined", str |-> <<>>],
   out |-> <<>>]

VerifiesIdle == [v \in 1 .. MaxVerify |-> VerifyIdle]

\* typeof value === 'undefined'
Undefined == "undefined"

\* A security token that is undefined.
NoToken == [defined |-> FALSE, code |-> Undefined, color |-> Undefined,
            textcolor |-> Undefined]

\* The config store before any write, with the keys Settings uses, and no call
\* of Settings yet; before is the store the last call found.
EmptyStore ==
  [code |-> Undefined, color |-> Undefined, textColor |-> Undefined,
   trustedDomain |-> Undefined]

\* written is the token of the last setSecurityToken that returned, NoToken
\* when there was none since the store was flushed.
ConfigEmpty ==
  [store |-> EmptyStore,
   last |-> [op |-> "none", token |-> NoToken, domain |-> Undefined,
             threw |-> FALSE, before |-> EmptyStore],
   written |-> NoToken]

\* The classes that mark the state of the edit-group autocomplete.
StateClasses == {"loading", "loaded", "hidden"}

\* currentUsers[this.id] when the list has no user under that id.
NoUser == [id |-> Undefined, load |-> 0]

\* The edit-group autocomplete once its listeners are bound: the classes of
\* the body, of the iframe on the page and of .autocomplete-content, the
\* users of currentUsers (a user is its id and the load-users event that
\* delivered it), the items of the ul, and the load() chains that wait for a
\* template.  loads counts the load-users events, cleared tells that no
\* load-users event came since the last reset or loading event, and last is
\* the last handler with the user it emitted as selected.
AutocompleteIdle ==
  [body |-> {}, iframe |-> {}, content |-> {},
   currentUsers |-> {}, ul |-> {}, chains |-> {},
   loads |-> 0, cleared |-> TRUE,
   last |-> [op |-> "none", selected |-> NoUser]]

\* The components other than the authentication controller at rest.
OthersInit ==
  /\ lastOp = NoOp
  /\ dialog = DialogLoaded
  /\ bridge = BridgeIdle
  /\ bus = BusEmpty
  /\ verifies = VerifiesIdle
  /\ config = ConfigEmpty
  /\ autocomplete = AutocompleteIdle

\* The empty cache.  seconds is the duration given with the passphrase stored
\* last and age the time elapsed since then.
NoPassphrase == [set |-> FALSE, passphrase |-> "", seconds |-> "", age |-> 0]

\* A controller before login() is called.  pc is the await the run is
\* suspended at ("csrf", "login", "mfa", "sync", "init") or "done"; tabId is
\* this._tabId; trace records the calls, returns and emissions of the run in
\* order, and out the messages it emitted; during is the set of the calls
\* that were suspended when this call was made.
IdleRun ==
  [ pc |-> "idle",
    worker |-> [hasPageMod |-> FALSE, name |-> "QuickAccess", tab |-> 1],
    passphrase |-> "", remember |-> "undefined",
    redirect |-> [type |-> "undefined", str |-> <<>>],
    requestId |-> 0,
    tabId |-> NoTab,
    trace |-> <<>>,
    out |-> <<>>,
    during |-> {} ]

Init ==
  /\ runs = [r \in {1} |-> IdleRun]
  /\ workers \in SUBSET ({"Auth"} \X Tabs \X {1})
  /\ trustedDomain \in TrustedDomainValues
  /\ settings = "unset"
  /\ remembered = NoPassphrase
  /\ OthersInit

\* ------------------------------------------------------------------------
\* JavaScript helpers

\* if (remember)
Truthy(remember) == remember \in {"true", "300"}

\* String(value), as the + operator and the URL constructor convert a value.
ToString(v) == IF v.type = "string" THEN v.str ELSE <<v.type>>

\* new URL(s).href: throws when s is no absolute URL; the href of a URL
\* without path ends with the root path.
IsValidUrl(s) == Len(s) >= 1 /\ s[1] = Origin
UrlHref(s) == IF Len(s) = 1 THEN s \o <<"/">> ELSE s

\* this.worker.pageMod && this.worker.pageMod.args.name == "AuthForm"
IsAuthForm(worker) == worker.hasPageMod /\ worker.name = "AuthForm"

\* The port of a worker is named by the identity of the worker.
PortOf(worker) == <<worker.name, worker.tab>>

\* Worker.get(name, tabId) throws when the registry has no such worker.
WorkerExists(name, tabId) ==
  \E w \in workers : w[1] = name /\ w[2] = tabId

\* A message emitted on a port.
\* attempts is the attempt counter the message carries, NoAttempts when it
\* carries none.
NoAttempts == 0

Message(to, channel, requestId, status, message, redirect) ==
  [ to |-> to, channel |-> channel, requestId |-> requestId,
    status |-> status, message |-> message, redirect |-> redirect,
    attempts |-> NoAttempts ]

\* port.emit() delivering the message twice.
EmitTwice(run, msg) == [run EXCEPT !.out = Append(Append(@, msg), msg)]

Emit(run, msg) == [run EXCEPT !.out = Append(@, msg)]
Log(run, evs) == [run EXCEPT !.trace = @ \o evs]

\* The error a failed step rejects with.
ErrorOf(step) == [name |-> "Error", message |-> step, attempts |-> NoAttempts]

\* The domain error a failed crypto login rejects with: it carries the count
\* of the attempts.
LoginError(attempts) == [ErrorOf("login failed") EXCEPT !.attempts = attempts]

\* port.getEmitableError(error): the error as a plain object.
GetEmitableError(error) ==
  [message |-> error.message, attempts |-> error.attempts]

\* ------------------------------------------------------------------------
\* AuthController

\* _beforeLogin with the page mod name left unchecked.
BeforeLoginAnyPageMod(run) ==
  IF run.worker.hasPageMod
    THEN LET kept == [run EXCEPT !.tabId = run.worker.tab]
         IN  IF WorkerExists("Auth", kept.tabId)
               THEN Emit(Log(kept, <<"emit.processing">>),
                         Message(<<"Auth", kept.tabId>>,
                                 "passbolt.auth.login-processing", 0, "",
                                 "Logging in", <<>>))
               ELSE kept
    ELSE run

\* _beforeLogin: the Auth worker of the tab is looked up after the tab id is
\* recorded; the lookup throws when the worker is not registered.
BeforeLogin(run) ==
  IF IsAuthForm(run.worker)
    THEN LET kept == [run EXCEPT !.tabId = run.worker.tab]
         IN  IF WorkerExists("Auth", kept.tabId)
               THEN Emit(Log(kept, <<"emit.processing">>),
                         Message(<<"Auth", kept.tabId>>,
                                 "passbolt.auth.login-processing", 0, "",
                                 "Logging in", <<>>))
               ELSE kept
    ELSE run

\* Whether _beforeLogin throws.
BeforeLoginThrows(run) ==
  IsAuthForm(run.worker) /\ ~WorkerExists("Auth", run.worker.tab)

\* _handleLoginError with the page mod name left unchecked.
HandleLoginErrorAnyPageMod(run, error) ==
  LET ended == [run EXCEPT !.pc = "done"]
  IN  IF run.worker.hasPageMod
        THEN IF WorkerExists("Auth", run.worker.tab)
               THEN Emit(Log(ended, <<"emit.failed">>),
                         Message(<<"Auth", run.worker.tab>>,
                                 "passbolt.auth.login-failed", 0, "",
                                 error.message, <<>>))
               ELSE Log(ended, <<"throw">>)
        ELSE Emit(Log(ended, <<"emit.error">>),
                  [Message(PortOf(run.worker), "requestId", run.requestId,
                           "ERROR", GetEmitableError(error).message, <<>>)
                     EXCEPT !.attempts = GetEmitableError(error).attempts])

\* _handleLoginError that hands the attempt counter of the error to the login
\* form as well.
HandleLoginErrorWithAttempts(run, error) ==
  LET ended == [run EXCEPT !.pc = "done"]
  IN  IF IsAuthForm(run.worker)
        THEN IF WorkerExists("Auth", run.tabId)
               THEN Emit(Log(ended, <<"emit.failed">>),
                         [Message(<<"Auth", run.tabId>>,
                                  "passbolt.auth.login-failed", 0, "",
                                  error.message, <<>>)
                            EXCEPT !.attempts = error.attempts])
               ELSE Log(ended, <<"throw">>)
        ELSE Emit(Log(ended, <<"emit.error">>),
                  [Message(PortOf(run.worker), "requestId", run.requestId,
                           "ERROR", GetEmitableError(error).message, <<>>)
                     EXCEPT !.attempts = GetEmitableError(error).attempts])

\* _handleLoginError: the run ends; when the Auth worker is not registered
\* the handler throws out of the catch block and login() rejects.
HandleLoginError(run, error) ==
  LET ended == [run EXCEPT !.pc = "done"]
  IN  IF IsAuthForm(run.worker)
        THEN IF WorkerExists("Auth", run.tabId)
               THEN Emit(Log(ended, <<"emit.failed">>),
                         Message(<<"Auth", run.tabId>>,
                                 "passbolt.auth.login-failed", 0, "",
                                 error.message, <<>>))
               ELSE Log(ended, <<"throw">>)
        ELSE Emit(Log(ended, <<"emit.error">>),
                  [Message(PortOf(run.worker), "requestId", run.requestId,
                           "ERROR", GetEmitableError(error).message, <<>>)
                     EXCEPT !.attempts = GetEmitableError(error).attempts])

\* _checkMfaAuthentication testing the page mod name instead.
MfaCheckRequiredNotAuthForm(worker) == ~IsAuthForm(worker)

\* _checkMfaAuthentication: the condition under which user.isLoggedIn() is
\* awaited.
MfaCheckRequired(worker) == ~worker.hasPageMod

\* _handleLoginSuccess without the test of the leading slash.
UseTrustedDomainRootNoSlashCheck(redirect) ==
  \/ redirect.type = "undefined"
  \/ (redirect.type = "string" /\ redirect.str = <<>>)
  \/ redirect.type # "string"

\* _handleLoginSuccess: the redirect is replaced by the trusted domain when it
\* is falsy, is no string or does not start with a slash.
UseTrustedDomainRoot(redirect) ==
  \/ redirect.type = "undefined"
  \/ (redirect.type = "string" /\ redirect.str = <<>>)
  \/ redirect.type # "string"
  \/ redirect.str[1] # "/"

\* The argument of new URL() in _handleLoginSuccess.
RedirectUrl(domain, redirect) ==
  IF UseTrustedDomainRoot(redirect)
    THEN ToString(domain)
    ELSE ToString(domain) \o redirect.str

\* _handleLoginSuccess with the Auth worker taken from the first tab instead
\* of the tab kept by _beforeLogin.
HandleLoginSuccessFirstTab(run) ==
  LET ended == [run EXCEPT !.pc = "done"]
  IN  IF IsAuthForm(run.worker)
        THEN LET url == RedirectUrl(trustedDomain, run.redirect)
             IN  IF IsValidUrl(url) /\ WorkerExists("Auth", 1)
                   THEN Emit(Log(ended, <<"emit.success">>),
                             Message(<<"Auth", 1>>,
                                     "passbolt.auth.login-success", 0, "",
                                     "You are now logged in!", UrlHref(url)))
                   ELSE Log(ended, <<"throw">>)
        ELSE Emit(Log(ended, <<"emit.SUCCESS">>),
                  Message(PortOf(run.worker), "requestId", run.requestId,
                          "SUCCESS", "", <<>>))

\* _handleLoginSuccess after PassboltApp.init() resolved.  new URL() and
\* Worker.get() may throw: the promise of _handleLoginSuccess, which login()
\* does not await, is then rejected and nothing is emitted.
HandleLoginSuccess(run) ==
  LET ended == [run EXCEPT !.pc = "done"]
  IN  IF IsAuthForm(run.worker)
        THEN LET url == RedirectUrl(trustedDomain, run.redirect)
             IN  IF IsValidUrl(url) /\ WorkerExists("Auth", run.tabId)
                   THEN Emit(Log(ended, <<"emit.success">>),
                             Message(<<"Auth", run.tabId>>,
                                     "passbolt.auth.login-success", 0, "",
                                     "You are now logged in!", UrlHref(url)))
                   ELSE Log(ended, <<"throw">>)
        ELSE Emit(Log(ended, <<"emit.SUCCESS">>),
                  Message(PortOf(run.worker), "requestId", run.requestId,
                          "SUCCESS", "", <<>>))

\* login(): the controller is constructed for the worker and the request,
\* _beforeLogin runs and the CSRF token is requested.
Login(r, worker, passphrase, remember, redirect) ==
  /\ runs[r].pc = "idle"
  /\ \A q \in 1 .. (r - 1) : runs[q].pc # "idle"
  /\ LET new == [IdleRun EXCEPT !.worker = worker, !.passphrase = passphrase,
                                !.remember = remember, !.redirect = redirect,
                                !.requestId = r,
                                !.during = {q \in DOMAIN runs :
                                  runs[q].pc \notin {"idle", "done"}}]
         hooked == BeforeLogin(new)
     IN  runs' = [runs EXCEPT ![r] =
           IF BeforeLoginThrows(new)
             THEN HandleLoginError(hooked, ErrorOf("worker not found"))
             ELSE [Log(hooked, <<"csrf.call">>) EXCEPT !.pc = "csrf"]]
  /\ UNCHANGED <<workers, trustedDomain, settings, remembered>>

\* user.retrieveAndStoreCsrfToken() returns: auth.login(passphrase) is called.
CsrfReturn(r, ok) ==
  /\ runs[r].pc = "csrf"
  /\ runs' = [runs EXCEPT ![r] =
       IF ok
         THEN [Log(@, <<"csrf.ok", "login.call">>) EXCEPT !.pc = "login"]
         ELSE HandleLoginError(Log(@, <<"csrf.fail">>), ErrorOf("csrf failed"))]
  /\ UNCHANGED <<workers, trustedDomain, settings, remembered>>

\* login() with _checkMfaAuthentication() not awaited: the settings sync is
\* called while user.isLoggedIn() is pending.
AuthLoginReturnNoAwait(r, ok, attempts) ==
  /\ runs[r].pc = "login"
  /\ runs' = [runs EXCEPT ![r] =
       IF ~ok
         THEN HandleLoginError(Log(@, <<"login.fail">>), LoginError(attempts))
         ELSE IF MfaCheckRequired(@.worker)
           THEN [Log(@, <<"login.ok", "mfa.call", "sync.call">>)
                   EXCEPT !.pc = "sync"]
           ELSE [Log(@, <<"login.ok", "sync.call">>) EXCEPT !.pc = "sync"]]
  /\ UNCHANGED <<workers, trustedDomain, settings, remembered>>

\* this.auth.login(passphrase) returns: _checkMfaAuthentication awaits
\* user.isLoggedIn() for a worker without page mod, and otherwise
\* _syncUserSettings calls user.settings.sync().
AuthLoginReturn(r, ok, attempts) ==
  /\ runs[r].pc = "login"
  /\ runs' = [runs EXCEPT ![r] =
       IF ~ok
         THEN HandleLoginError(Log(@, <<"login.fail">>), LoginError(attempts))
         ELSE IF MfaCheckRequired(@.worker)
           THEN [Log(@, <<"login.ok", "mfa.call">>) EXCEPT !.pc = "mfa"]
           ELSE [Log(@, <<"login.ok", "sync.call">>) EXCEPT !.pc = "sync"]]
  /\ UNCHANGED <<workers, trustedDomain, settings, remembered>>

\* user.isLoggedIn() returns.
MfaReturn(r, ok) ==
  /\ runs[r].pc = "mfa"
  /\ runs' = [runs EXCEPT ![r] =
       IF ok
         THEN [Log(@, <<"mfa.ok", "sync.call">>) EXCEPT !.pc = "sync"]
         ELSE HandleLoginError(Log(@, <<"mfa.fail">>), ErrorOf("mfa required"))]
  /\ UNCHANGED <<workers, trustedDomain, settings, remembered>>

\* login() storing the passphrase only for remember === true, and always.
StoresPassphraseOnlyTrue(run) == run.remember = "true"
StoresPassphraseAlways(run) == TRUE

\* if (remember) user.storeMasterPasswordTemporarily(passphrase, remember)
StoresPassphrase(run) == Truthy(run.remember)

\* user.settings.sync() returns: a failure is replaced by the default
\* settings; then the passphrase is remembered if asked, and
\* _handleLoginSuccess is called, which awaits PassboltApp.init().
SyncReturn(r, ok) ==
  /\ runs[r].pc = "sync"
  /\ settings' = IF ok THEN "synced" ELSE "defaults"
  /\ remembered' =
       IF StoresPassphrase(runs[r])
         THEN [set |-> TRUE, passphrase |-> runs[r].passphrase,
               seconds |-> runs[r].remember, age |-> 0]
         ELSE remembered
  /\ runs' = [runs EXCEPT ![r] =
       [Log(@, (IF ok THEN <<"sync.ok">> ELSE <<"sync.fail", "setDefaults">>)
               \o (IF StoresPassphrase(@) THEN <<"store">> ELSE <<>>)
               \o <<"init.call">>)
          EXCEPT !.pc = "init"]]
  /\ UNCHANGED <<workers, trustedDomain>>

\* app.pageMods.PassboltApp.init() returns inside _handleLoginSuccess.
InitReturn(r, ok) ==
  /\ runs[r].pc = "init"
  /\ runs' = [runs EXCEPT ![r] =
       IF ok
         THEN HandleLoginSuccess(Log(@, <<"init.ok">>))
         ELSE [Log(@, <<"init.fail", "throw">>) EXCEPT !.pc = "done"]]
  /\ UNCHANGED <<workers, trustedDomain, settings, remembered>>

\* ------------------------------------------------------------------------
\* The worker registry: a tab attaches or detaches its Auth worker.

\* The entries of an identity.
EntriesOf(name, tabId) == {w \in workers : w[1] = name /\ w[2] = tabId}

\* register() that adds the entry and keeps the entry it should replace.
RegisterKeepingOld(name, tabId, port) ==
  /\ workers' = workers \cup {<<name, tabId, port>>}
  /\ UNCHANGED <<runs, trustedDomain, settings, remembered>>

\* register(name, tabId, port): stores the entry, in place of the entry the
\* identity had.
Register(name, tabId, port) ==
  /\ workers' = (workers \ EntriesOf(name, tabId)) \cup {<<name, tabId, port>>}
  /\ UNCHANGED <<runs, trustedDomain, settings, remembered>>

\* unregister() that fails to remove the entry.
UnregisterNothing(name, tabId) ==
  /\ workers' = workers
  /\ UNCHANGED <<runs, trustedDomain, settings, remembered>>

\* unregister(name, tabId): removes the entry, if any.
Unregister(name, tabId) ==
  /\ workers' = workers \ EntriesOf(name, tabId)
  /\ UNCHANGED <<runs, trustedDomain, settings, remembered>>

AuthNext ==
  \/ \E r \in DOMAIN runs, worker \in OriginWorkers, passphrase \in Passphrases,
        remember \in RememberValues, redirect \in RedirectValues :
       Login(r, worker, passphrase, remember, redirect)
  \/ \E r \in DOMAIN runs, ok \in BOOLEAN : CsrfReturn(r, ok)
  \/ \E r \in DOMAIN runs, ok \in BOOLEAN, attempts \in 1 .. MaxAttempts :
       AuthLoginReturn(r, ok, attempts)
  \/ \E r \in DOMAIN runs, ok \in BOOLEAN : MfaReturn(r, ok)
  \/ \E r \in DOMAIN runs, ok \in BOOLEAN : SyncReturn(r, ok)
  \/ \E r \in DOMAIN runs, ok \in BOOLEAN : InitReturn(r, ok)
  \/ \E tabId \in Tabs : Register("Auth", tabId, 1)
  \/ \E tabId \in Tabs : Unregister("Auth", tabId)

Next == AuthNext /\ UNCHANGED <<lastOp, restVars>>

Spec == Init /\ [][Next]_vars

\* ------------------------------------------------------------------------
\* Several login() calls in flight: every call has its own controller, made
\* for its worker and request; the calls share the worker registry, the
\* config, the settings and the cache of the User singleton.

MaxLogins == 2

\* The redirect arguments and trusted domains of the concurrent calls.
ConcurrentRedirects ==
  {[type |-> "undefined", str |-> <<>>], [type |-> "string", str |-> <<"/", "a">>]}

ConcurrentInit ==
  /\ runs = [r \in 1 .. MaxLogins |-> IdleRun]
  /\ workers \in SUBSET ({"Auth"} \X Tabs \X {1})
  /\ trustedDomain \in {[type |-> "string", str |-> <<Origin>>],
                         [type |-> "undefined", str |-> <<>>]}
  /\ settings = "unset"
  /\ remembered = NoPassphrase
  /\ OthersInit

ConcurrentNext ==
  /\ \/ \E r \in DOMAIN runs, worker \in OriginWorkers,
           redirect \in ConcurrentRedirects :
          Login(r, worker, "pass-a", "false", redirect)
     \/ \E r \in DOMAIN runs, ok \in BOOLEAN : CsrfReturn(r, ok)
     \/ \E r \in DOMAIN runs, ok \in BOOLEAN : AuthLoginReturn(r, ok, 1)
     \/ \E r \in DOMAIN runs, ok \in BOOLEAN : MfaReturn(r, ok)
     \/ \E r \in DOMAIN runs, ok \in BOOLEAN : SyncReturn(r, ok)
     \/ \E r \in DOMAIN runs, ok \in BOOLEAN : InitReturn(r, ok)
     \/ \E tabId \in Tabs : Register("Auth", tabId, 1)
     \/ \E tabId \in Tabs : Unregister("Auth", tabId)
  /\ UNCHANGED <<lastOp, restVars>>

SpecConcurrent == ConcurrentInit /\ [][ConcurrentNext]_vars

\* The authentication controller at rest: no login() is called.
AuthAtRest ==
  /\ runs = [r \in {1} |-> IdleRun]
  /\ workers = {}
  /\ trustedDomain = [type |-> "string", str |-> <<Origin>>]
  /\ settings = "unset"
  /\ remembered = NoPassphrase

\* ------------------------------------------------------------------------
\* The remembered passphrase and the clock

\* The duration of the cache when none is given, and the time one step of the
\* clock takes.
DefaultTtl == 300
TickSeconds == 100

\* The duration the cache applies to the seconds it is given.
Ttl(seconds) == IF seconds = "300" THEN 300 ELSE DefaultTtl

TickKeepsForever ==
  /\ remembered.set
  /\ remembered' = [remembered EXCEPT !.age = remembered.age + TickSeconds]
  /\ remembered.age < DefaultTtl
  /\ UNCHANGED <<runs, workers, trustedDomain, settings, lastOp, restVars>>

\* Time passes: the passphrase is evicted once its duration has elapsed.
Tick ==
  /\ remembered.set
  /\ LET age == remembered.age + TickSeconds
     IN  remembered' =
           IF age >= Ttl(remembered.seconds)
             THEN [remembered EXCEPT !.set = FALSE, !.passphrase = "",
                                     !.age = age]
             ELSE [remembered EXCEPT !.age = age]
  /\ UNCHANGED <<runs, workers, trustedDomain, settings, lastOp, restVars>>

TtlNext == Next \/ Tick

SpecTtl == Init /\ [][TtlNext]_vars

\* ------------------------------------------------------------------------
\* The worker registry on its own: workers of any name register with a port,
\* are looked up and unregister.

MaxPort == 2
Ports == 1 .. MaxPort
WorkerNames == {"Auth", "AuthForm"}

\* Worker.get(name, tabId): the ports the lookup can return; it fails with
\* NotFoundError when there is none.
WorkerGet(name, tabId) == {w[3] : w \in EntriesOf(name, tabId)}

RegistryInit ==
  /\ AuthAtRest
  /\ OthersInit

RegistryRegister(name, tabId, port) ==
  /\ Register(name, tabId, port)
  /\ lastOp' = [op |-> "register", name |-> name, tabId |-> tabId,
                port |-> port, before |-> workers]
  /\ UNCHANGED restVars

RegistryUnregister(name, tabId) ==
  /\ Unregister(name, tabId)
  /\ lastOp' = [op |-> "unregister", name |-> name, tabId |-> tabId,
                port |-> 0, before |-> workers]
  /\ UNCHANGED restVars

RegistryNext ==
  \/ \E name \in WorkerNames, tabId \in Tabs, port \in Ports :
       RegistryRegister(name, tabId, port)
  \/ \E name \in WorkerNames, tabId \in Tabs :
       RegistryUnregister(name, tabId)

SpecRegistry == RegistryInit /\ [][RegistryNext]_vars

\* ------------------------------------------------------------------------
\* The passphrase dialog (master password dialog)

MaxCompletions == 3
Attempts == 0 .. MaxAttempts
CompletionStatuses == {"ERROR", "SUCCESS"}
DialogTokens == {"token-a", "token-b"}

DialogInit ==
  /\ AuthAtRest
  /\ OthersInit

\* What the identifier masterPassword denotes in rememberMasterPassword: the
\* function has no such parameter and the script declares no such variable,
\* so the identifier is unbound, unless the global scope of the page has a
\* property of that name.
Unbound == "ReferenceError"
GlobalMasterPassword == {Unbound, "window.masterPassword"}

RememberRequest(masterPassword, time) ==
  [channel |-> "passbolt.user.rememberMasterPassword",
   passphrase |-> masterPassword, time |-> time]

SubmitMessage(masterPassword) ==
  [channel |-> "passbolt.keyring.master.request.submit",
   passphrase |-> masterPassword, time |-> 0]

\* submitMasterPassword(masterPassword): marks the submit button as processing
\* and sends the passphrase to the add-on.
submitMasterPassword(d, input, masterPassword) ==
  [d EXCEPT !.dom.processing = TRUE,
            !.input = [input EXCEPT
                         !.emitted = Append(@, SubmitMessage(masterPassword))]]

\* The passphrase field gets the key Enter: the passphrase is submitted.
masterPasswordFieldKeypressed(entered) ==
  /\ dialog' = submitMasterPassword(dialog,
                  [NoDialogInput EXCEPT !.kind = "enter", !.entered = entered],
                  entered)
  /\ UNCHANGED <<authVars, lastOp, bridge, bus, verifies, config, autocomplete>>

\* rememberMasterPassword(): requests the add-on to remember what the
\* identifier masterPassword denotes, for 300 seconds; evaluating an unbound
\* identifier throws.
rememberMasterPassword(input, global) ==
  IF global = Unbound
    THEN [input EXCEPT !.threw = TRUE]
    ELSE [input EXCEPT
            !.emitted = Append(@, RememberRequest(global, DefaultTtl))]

\* A click on the submit button: with the remember box checked
\* rememberMasterPassword() is called first; when it throws the handler ends
\* there.
submitButtonClicked(entered, checked, global) ==
  /\ LET input == [NoDialogInput EXCEPT !.kind = "click", !.entered = entered,
                                        !.checked = checked]
         asked == IF checked THEN rememberMasterPassword(input, global)
                             ELSE input
     IN  dialog' = IF asked.threw
                     THEN [dialog EXCEPT !.input = asked]
                     ELSE submitMasterPassword(dialog, asked, entered)
  /\ UNCHANGED <<authVars, lastOp, bridge, bus, verifies, config, autocomplete>>

\* The handler with the terminal failure view from the fourth attempt on.
masterCompleteHandlerOneMoreTry(token, status, attempts) ==
  /\ Len(dialog.received) < MaxCompletions
  /\ LET dom == IF status = "ERROR"
                  THEN IF attempts <= 3
                         THEN [dialog.dom EXCEPT !.processing = FALSE,
                                                 !.labelError = TRUE]
                         ELSE [dialog.dom EXCEPT !.processing = FALSE,
                                                 !.view = "failure"]
                  ELSE dialog.dom
     IN  dialog' = [dialog EXCEPT
                      !.dom = dom,
                      !.received = Append(@, [status |-> status,
                                              attempts |-> attempts]),
                      !.before = dialog.dom,
                      !.after = dom]
  /\ UNCHANGED <<authVars, lastOp, bridge, bus, verifies, config, autocomplete>>

\* masterCompleteHandler(token, status, attempts): on ERROR the button stops
\* processing and, under three attempts, the label shows the error; from
\* three attempts on the failure template replaces the dialog content.
masterCompleteHandler(token, status, attempts) ==
  /\ Len(dialog.received) < MaxCompletions
  /\ LET dom == IF status = "ERROR"
                  THEN IF attempts < 3
                         THEN [dialog.dom EXCEPT !.processing = FALSE,
                                                 !.labelError = TRUE]
                         ELSE [dialog.dom EXCEPT !.processing = FALSE,
                                                 !.view = "failure"]
                  ELSE dialog.dom
     IN  dialog' = [dialog EXCEPT
                      !.dom = dom,
                      !.received = Append(@, [status |-> status,
                                              attempts |-> attempts]),
                      !.before = dialog.dom,
                      !.after = dom]
  /\ UNCHANGED <<authVars, lastOp, bridge, bus, verifies, config, autocomplete>>

DialogNext ==
  \/ \E entered \in Passphrases : masterPasswordFieldKeypressed(entered)
  \/ \E entered \in Passphrases, checked \in BOOLEAN,
        global \in GlobalMasterPassword :
       submitButtonClicked(entered, checked, global)
  \/ \E token \in DialogTokens, status \in CompletionStatuses,
        attempts \in Attempts :
       masterCompleteHandler(token, status, attempts)

SpecDialog == DialogInit /\ [][DialogNext]_vars

\* ------------------------------------------------------------------------
\* The page bridge (content script app.js)

MaxInputs == 2

\* The DOM events of the page the bridge listens for.
PageListeners ==
  { "passbolt.html_helper.window_resized",
    "passbolt.plugin.account_settings_updated",
    "passbolt.group.edit.remove_group_user",
    "passbolt.group.edit.edit_group_user",
    "passbolt.group.edit.save",
    "passbolt.secret.focus",
    "passbolt.secret_edition.encrypt",
    "passbolt.secret_edition.validate",
    "passbolt.secret.decrypt",
    "passbolt.plugin.decrypt_secret_and_copy_to_clipboard",
    "passbolt.settings.download_private_key",
    "passbolt.settings.download_public_key",
    "passbolt.export-passwords",
    "passbolt.plugin.export_resources",
    "passbolt.import-passwords" }

\* Names the page can dispatch as well: a channel of the add-on, an event the
\* bridge emits to the page, and the name of no listener.
OtherPageEvents ==
  { "passbolt.group.edit.add-user", "passbolt_notify",
    "passbolt.keyring.private.get" }

\* The channels of the add-on the bridge registers a handler for.
ExtensionHandlers ==
  { "passbolt.passbolt-page.loading",
    "passbolt.passbolt-page.loading_complete",
    "passbolt.passbolt-page.add-class",
    "passbolt.passbolt-page.remove-class",
    "passbolt.passbolt-page.remove-all-focuses",
    "passbolt.passbolt-page.resize-iframe",
    "passbolt.group.edit.add-user",
    "passbolt.group.edit.group_loaded",
    "passbolt.secret-edit.secret-updated",
    "passbolt.secret-edit.tab-pressed",
    "passbolt.secret-edit.back-tab-pressed",
    "passbolt.secret-edit.validate-success",
    "passbolt.secret-edit.validate-error",
    "passbolt.import-passwords.complete",
    "passbolt.export-passwords.complete" }

\* Channels the add-on uses as well: the name the passphrase dialog emits to
\* release the focus, the outcome of a login and an event of the page.
OtherChannels ==
  { "passbolt.passbolt-page.remove_all_focuses", "passbolt.auth.login-failed",
    "passbolt.group.edit.save" }

ResponseStatuses == {"SUCCESS", "ERROR"}

\* An event emitted to the page: ids are the requests whose answers it
\* carries.
PageEvent(name, detail, ids) == [name |-> name, detail |-> detail, ids |-> ids]

\* A bridge that relays the events it has no listener for under their name.
PageEmitsAnyName(name) ==
  CASE name = "passbolt.html_helper.window_resized" ->
         <<"passbolt.app.window-resized">>
    [] name = "passbolt.secret.focus" -> <<"passbolt.secret-edit.focus">>
    [] name \in { "passbolt.secret.decrypt",
                  "passbolt.plugin.decrypt_secret_and_copy_to_clipboard" } ->
         <<"passbolt.passbolt-page.remove-all-focuses">>
    [] name \in PageListeners -> <<>>
    [] OTHER -> <<name>>

\* What the listener of a page event emits to the add-on at once.
PageEmits(name) ==
  CASE name = "passbolt.html_helper.window_resized" ->
         <<"passbolt.app.window-resized">>
    [] name = "passbolt.secret.focus" -> <<"passbolt.secret-edit.focus">>
    [] name \in { "passbolt.secret.decrypt",
                  "passbolt.plugin.decrypt_secret_and_copy_to_clipboard" } ->
         <<"passbolt.passbolt-page.remove-all-focuses">>
    [] OTHER -> <<>>

\* The channel the listener of a page event requests at once, "" when it
\* requests nothing; the export of passwords is requested for a non-empty
\* list of resources only.
PageRequest(name, hasResources) ==
  CASE name = "passbolt.plugin.account_settings_updated" ->
         "passbolt.user.settings.sync"
    [] name = "passbolt.group.edit.remove_group_user" ->
         "passbolt.group.edit.remove-group_user"
    [] name = "passbolt.group.edit.edit_group_user" ->
         "passbolt.group.edit.edit-group_user"
    [] name = "passbolt.group.edit.save" -> "passbolt.group.edit.save"
    [] name = "passbolt.secret_edition.encrypt" -> "passbolt.secret-edit.encrypt"
    [] name = "passbolt.secret_edition.validate" ->
         "passbolt.secret-edit.validate"
    [] name = "passbolt.secret.decrypt" -> "passbolt.app.decrypt-copy"
    [] name = "passbolt.plugin.decrypt_secret_and_copy_to_clipboard" ->
         "passbolt.app.decrypt-secret-and-copy-to-clipboard"
    [] name = "passbolt.settings.download_private_key" ->
         "passbolt.keyring.private.get"
    [] name = "passbolt.settings.download_public_key" ->
         "passbolt.keyring.public.get_armored"
    [] name = "passbolt.export-passwords" ->
         IF hasResources THEN "passbolt.app.export-resources" ELSE ""
    [] name = "passbolt.plugin.export_resources" ->
         "passbolt.app.export-resources"
    [] name = "passbolt.import-passwords" ->
         "passbolt.import-passwords.open-dialog"
    [] OTHER -> ""

\* What the handler of a channel of the add-on emits to the page at once, as
\* <<name, detail>>; the handlers that only change the DOM emit nothing.
ExtensionPage(channel) ==
  CASE channel = "passbolt.passbolt-page.loading" -> <<<<"passbolt_loading", "">>>>
    [] channel = "passbolt.passbolt-page.loading_complete" ->
         <<<<"passbolt_loading_complete", "">>>>
    [] channel = "passbolt.passbolt-page.remove-all-focuses" ->
         <<<<"remove_all_focuses", "">>>>
    [] channel = "passbolt.group.edit.group_loaded" ->
         <<<<"passbolt.plugin.group.edit.group_loaded", "">>>>
    [] channel = "passbolt.secret-edit.secret-updated" ->
         <<<<"secret_edition_secret_changed", "">>>>
    [] channel = "passbolt.secret-edit.tab-pressed" ->
         <<<<"secret_tab_pressed", "">>>>
    [] channel = "passbolt.secret-edit.back-tab-pressed" ->
         <<<<"secret_backtab_pressed", "">>>>
    [] channel = "passbolt.import-passwords.complete" ->
         <<<<"passbolt.plugin.import-passwords-complete", "">>>>
    [] channel = "passbolt.export-passwords.complete" ->
         <<<<"passbolt_notify", "export_passwords_success">>>>
    [] OTHER -> <<>>

\* The channel the handler of a channel of the add-on requests at once.
ExtensionRequest(channel) ==
  IF channel = "passbolt.group.edit.add-user"
    THEN "passbolt.group.edit.get_group_users_change_list"
    ELSE ""

\* What a callback does: the events it emits to the page and the channel it
\* requests next.
Nothing == [page |-> <<>>, request |-> ""]

\* A callback that emits its event twice.
ToPageTwice(name, detail) ==
  [page |-> <<<<name, detail>>, <<name, detail>>>>, request |-> ""]

ToPage(name, detail) == [page |-> <<<<name, detail>>>>, request |-> ""]

\* A callback that tells the page of the update when it requests the change
\* list.
ThenRequestAndTell(channel) ==
  [page |-> <<<<"passbolt.plugin.group.edit.group_users_updated", "">>>>,
   request |-> channel]

ThenRequest(channel) == [page |-> <<>>, request |-> channel]

\* The callbacks of the promise of a request: what the bridge emits to the
\* page and requests next when the request of that origin and stage settles.
Settled(origin, stage, status) ==
  LET ok == status = "SUCCESS"
  IN  CASE origin = "passbolt.group.edit.remove_group_user" ->
             IF ~ok THEN Nothing
             ELSE IF stage = 1
               THEN ThenRequest("passbolt.group.edit.get_group_users_change_list")
               ELSE ToPage("passbolt.plugin.group.edit.group_users_updated",
                           "deleted")
        [] origin = "passbolt.group.edit.edit_group_user" ->
             IF ~ok THEN Nothing
             ELSE IF stage = 1
               THEN ThenRequest("passbolt.group.edit.get_group_users_change_list")
               ELSE ToPage("passbolt.plugin.group.edit.group_users_updated",
                           "updated")
        [] origin = "passbolt.group.edit.add-user" ->
             IF ~ok THEN Nothing
             ELSE [page |-> << <<"passbolt.plugin.group.edit.group_users_updated",
                                 "created">>,
                               <<"passbolt.group.edit.add_user", "">> >>,
                   request |-> ""]
        [] origin = "passbolt.group.edit.save" ->
             IF ok THEN ToPage("group_edit_save_success", "")
                   ELSE ToPage("group_edit_save_error", "")
        [] origin = "passbolt.secret_edition.encrypt" ->
             IF ok THEN ToPage("secret_edition_secret_encrypted", "")
                   ELSE Nothing
        [] origin = "passbolt.secret_edition.validate" ->
             IF ok THEN ToPage("secret_edition_secret_validated", "true")
                   ELSE ToPage("secret_edition_secret_validated", "false")
        [] origin \in { "passbolt.secret.decrypt",
                        "passbolt.plugin.decrypt_secret_and_copy_to_clipboard" } ->
             IF ok THEN ToPage("passbolt_notify", "plugin_clipboard_copy_success")
                   ELSE ToPage("passbolt_notify", "secret_decrypt_error")
        [] origin = "passbolt.settings.download_private_key" ->
             IF ~ok THEN ToPage("passbolt_notify", "download_private_key_error")
             ELSE IF stage = 1 THEN ThenRequest("passbolt.keyring.key.backup")
             ELSE ToPage("passbolt_notify", "download_private_key_success")
        [] origin = "passbolt.settings.download_public_key" ->
             IF ~ok THEN ToPage("passbolt_notify", "download_public_key_error")
             ELSE IF stage = 1 THEN ThenRequest("passbolt.keyring.key.backup")
             ELSE ToPage("passbolt_notify", "download_public_key_success")
        [] OTHER -> Nothing

\* The input handled last, with what it found.
InputOf(kind, name, id, status) ==
  [kind |-> kind, name |-> name, id |-> id, status |-> status,
   requests |-> bridge.requests, sent |-> Len(bridge.sent),
   page |-> Len(bridge.page)]

\* One handler of the bridge: it emits to the add-on, emits to the page and
\* calls passbolt.request(), which sends the channel with a fresh request id.
Handled(b, emits, pageEvents, request, origin, stage, chain) ==
  LET id == Len(b.requests) + 1
      called == IF request = "" THEN <<>>
                ELSE <<[channel |-> request, origin |-> origin,
                        stage |-> stage, chain |-> chain,
                        status |-> "pending"]>>
      asked == IF request = "" THEN <<>>
               ELSE <<[kind |-> "request", channel |-> request, id |-> id]>>
  IN  [b EXCEPT
         !.requests = @ \o called,
         !.sent = @ \o [i \in 1 .. Len(emits) |->
                          [kind |-> "emit", channel |-> emits[i], id |-> 0]]
                    \o asked,
         !.page = @ \o [i \in 1 .. Len(pageEvents) |->
                          PageEvent(pageEvents[i][1], pageEvents[i][2], chain)]]

\* The page dispatches a DOM event on window.
PageDispatch(name, hasResources) ==
  /\ bridge.inputs < MaxInputs
  /\ bridge' =
       [Handled(bridge, PageEmits(name), <<>>, PageRequest(name, hasResources),
                name, 1, <<>>)
          EXCEPT !.inputs = @ + 1, !.last = InputOf("page", name, 0, "")]
  /\ UNCHANGED <<authVars, lastOp, dialog, bus, verifies, config, autocomplete>>

\* The add-on sends a message on a channel.
ExtensionMessage(channel) ==
  /\ bridge.inputs < MaxInputs
  /\ bridge' =
       [Handled(bridge, <<>>, ExtensionPage(channel), ExtensionRequest(channel),
                channel, 1, <<>>)
          EXCEPT !.inputs = @ + 1, !.last = InputOf("extension", channel, 0, "")]
  /\ UNCHANGED <<authVars, lastOp, dialog, bus, verifies, config, autocomplete>>

\* A response settles the request of its id again.
SettlesAny(id) == id \in DOMAIN bridge.requests

\* Whether a response with this request id settles a request: the request
\* exists and is pending.
Settles(id) ==
  id \in DOMAIN bridge.requests /\ bridge.requests[id].status = "pending"

\* The add-on sends a response on the channel of a request id: the first one
\* settles the promise of the request, whose callbacks run; any other finds no
\* listener.
Response(id, status) ==
  /\ bridge' =
       IF Settles(id)
         THEN LET req == bridge.requests[id]
                  next == Settled(req.origin, req.stage, status)
                  settled == [bridge EXCEPT !.requests[id].status = status]
              IN  [Handled(settled, <<>>, next.page, next.request, req.origin,
                           req.stage + 1, Append(req.chain, id))
                     EXCEPT !.last = InputOf("response", "", id, status)]
         ELSE [bridge EXCEPT !.last = InputOf("response", "", id, status)]
  /\ UNCHANGED <<authVars, lastOp, dialog, bus, verifies, config, autocomplete>>

BridgeInit ==
  /\ AuthAtRest
  /\ OthersInit

BridgeNext ==
  \/ \E name \in PageListeners \cup OtherPageEvents, hasResources \in BOOLEAN :
       PageDispatch(name, hasResources)
  \/ \E channel \in ExtensionHandlers \cup OtherChannels :
       ExtensionMessage(channel)
  \/ \E id \in 1 .. (Len(bridge.requests) + 1), status \in ResponseStatuses :
       Response(id, status)

SpecBridge == BridgeInit /\ [][BridgeNext]_vars

\* ------------------------------------------------------------------------
\* The message bus (passbolt.message) as the edit-group autocomplete uses it

MaxRegistrations == 3
BusHandlers == {"loadingHandler", "loadUsersHandler", "resetHandler"}

BusInit ==
  /\ AuthAtRest
  /\ OthersInit

\* on() that keeps the last handler of a channel only.
MessageOnReplacing(channel, handler) ==
  /\ Len(bus.registered) < MaxRegistrations
  /\ bus' = [bus EXCEPT
       !.listeners[channel] = <<handler>>,
       !.registered = Append(@, <<channel, handler>>),
       !.last = [op |-> "on", channel |-> channel, invoked |-> <<>>]]
  /\ UNCHANGED <<authVars, lastOp, dialog, bridge, verifies, config, autocomplete>>

\* passbolt.message.on(channel, handler): adds the handler to the handlers of
\* the channel.
MessageOn(channel, handler) ==
  /\ Len(bus.registered) < MaxRegistrations
  /\ bus' = [bus EXCEPT
       !.listeners[channel] = Append(@, handler),
       !.registered = Append(@, <<channel, handler>>),
       !.last = [op |-> "on", channel |-> channel, invoked |-> <<>>]]
  /\ UNCHANGED <<authVars, lastOp, dialog, bridge, verifies, config, autocomplete>>

\* An emit on a channel: the handlers of the channel are invoked one after
\* the other, none when the channel has no handler.
MessageEmit(channel) ==
  /\ bus' = [bus EXCEPT
       !.last = [op |-> "emit", channel |-> channel,
                 invoked |-> bus.listeners[channel]]]
  /\ UNCHANGED <<authVars, lastOp, dialog, bridge, verifies, config, autocomplete>>

BusNext ==
  \/ \E channel \in BusChannels, handler \in BusHandlers :
       MessageOn(channel, handler)
  \/ \E channel \in BusChannels : MessageEmit(channel)

SpecBus == BusInit /\ [][BusNext]_vars

\* ------------------------------------------------------------------------
\* AuthController.verify()

\* error.message of the error auth.verify() rejects with: a text, the empty
\* string, or undefined.
VerifyErrorMessages ==
  { [type |-> "string", str |-> <<"key", " ", "mismatch">>],
    [type |-> "string", str |-> <<>>],
    [type |-> "undefined", str |-> <<>>] }

VerifiedMessage ==
  <<"The server key is verified. The server can use it to sign and decrypt content.">>

CouldNotVerify == <<"Could not verify server key.">>

VerifyInit ==
  /\ AuthAtRest
  /\ OthersInit

\* new AuthController(worker, requestId).verify(): auth.verify() is called.
Verify(v, worker) ==
  /\ verifies[v].pc = "idle"
  /\ verifies' = [verifies EXCEPT ![v] =
       [@ EXCEPT !.pc = "verify", !.worker = worker, !.requestId = v]]
  /\ UNCHANGED <<authVars, lastOp, dialog, bridge, bus, config, autocomplete>>

\* The message of the ERROR response without the message of the error.
VerifyErrorMessageGeneric(error) == CouldNotVerify

\* __('Could not verify server key.') + ' ' + error.message
VerifyErrorMessage(error) == CouldNotVerify \o <<" ">> \o ToString(error)

\* auth.verify() returns or rejects: the controller emits the response on the
\* port of its worker, under its request id.
AuthVerifyReturn(v, ok, error) ==
  /\ verifies[v].pc = "verify"
  /\ verifies' = [verifies EXCEPT ![v] =
       LET run == verifies[v]
       IN  IF ok
             THEN [run EXCEPT
                     !.pc = "verified",
                     !.out = Append(@, Message(PortOf(run.worker), "requestId",
                                               run.requestId, "SUCCESS",
                                               VerifiedMessage, <<>>))]
             ELSE [run EXCEPT
                     !.pc = "failed", !.error = error,
                     !.out = Append(@, Message(PortOf(run.worker), "requestId",
                                               run.requestId, "ERROR",
                                               VerifyErrorMessage(error),
                                               <<>>))]]
  /\ UNCHANGED <<authVars, lastOp, dialog, bridge, bus, config, autocomplete>>

VerifyNext ==
  \/ \E v \in DOMAIN verifies, worker \in OriginWorkers : Verify(v, worker)
  \/ \E v \in DOMAIN verifies, ok \in BOOLEAN,
        error \in VerifyErrorMessages :
       AuthVerifyReturn(v, ok, error)

SpecVerify == VerifyInit /\ [][VerifyNext]_vars

\* ------------------------------------------------------------------------
\* Settings: the security token and the trusted domain

\* The values of a colour of a token: undefined, two hex colours, a colour
\* name; of its code: undefined or three letters.
ColorValues == {Undefined, "#ff3a3a", "#fff", "red"}
CodeValues == {Undefined, "ABC"}
TokenValues ==
  {NoToken} \cup
    [defined : {TRUE}, code : CodeValues, color : ColorValues,
     textcolor : ColorValues]

\* The values of a domain: undefined, a URL, a text that is no URL.
DomainValues == {Undefined, "https://www.passbolt.com", "passbolt dot com"}

\* Validator.isHexColor and Validator.isURL on these values.
IsHexColor(color) == color \in {"#ff3a3a", "#fff"}
IsURL(domain) == domain = "https://www.passbolt.com"

\* __validateToken without the check of the text colour.
ValidateTokenThrowsNoTextColor(token) ==
  \/ ~token.defined
  \/ token.color = Undefined
  \/ token.code = Undefined
  \/ token.textcolor = Undefined
  \/ ~IsHexColor(token.color)

\* Whether __validateToken(token) throws.
ValidateTokenThrows(token) ==
  \/ ~token.defined
  \/ token.color = Undefined
  \/ token.code = Undefined
  \/ token.textcolor = Undefined
  \/ ~IsHexColor(token.color)
  \/ ~IsHexColor(token.textcolor)

\* Whether __validateDomain(domain) throws.
ValidateDomainThrows(domain) ==
  \/ domain = Undefined
  \/ ~IsURL(domain)

SettingsInit ==
  /\ AuthAtRest
  /\ OthersInit

\* setSecurityToken(token): validates, then writes the three keys.
SetSecurityToken(token) ==
  /\ config' =
       [store |-> IF ValidateTokenThrows(token)
                    THEN config.store
                    ELSE [config.store EXCEPT !.code = token.code,
                                              !.color = token.color,
                                              !.textColor = token.textcolor],
        last |-> [op |-> "setSecurityToken", token |-> token,
                  domain |-> Undefined,
                  threw |-> ValidateTokenThrows(token),
                  before |-> config.store],
        written |-> IF ValidateTokenThrows(token) THEN config.written
                                                  ELSE token]
  /\ UNCHANGED <<authVars, lastOp, dialog, bridge, bus, verifies, autocomplete>>

\* setDomain(domain): validates, then writes the trusted domain.
SetDomain(domain) ==
  /\ config' =
       [store |-> IF ValidateDomainThrows(domain)
                    THEN config.store
                    ELSE [config.store EXCEPT !.trustedDomain = domain],
        last |-> [op |-> "setDomain", token |-> NoToken, domain |-> domain,
                  threw |-> ValidateDomainThrows(domain),
                  before |-> config.store],
        written |-> config.written]
  /\ UNCHANGED <<authVars, lastOp, dialog, bridge, bus, verifies, autocomplete>>

\* Whether getSecurityToken() throws 'Security token is not set' on a store.
GetSecurityTokenThrows(store) ==
  \/ store.code = Undefined
  \/ store.color = Undefined
  \/ store.textColor = Undefined

\* A getSecurityToken() that reads the colour for the text colour.
GetSecurityTokenOfOneColor(store) ==
  [defined |-> TRUE, code |-> store.code, color |-> store.color,
   textcolor |-> store.color]

\* The token getSecurityToken() builds from the three keys of the store.
GetSecurityTokenOf(store) ==
  [defined |-> TRUE, code |-> store.code, color |-> store.color,
   textcolor |-> store.textColor]

\* getSecurityToken(): returns the token read from the store, or throws.
GetSecurityToken ==
  /\ config' = [config EXCEPT
       !.last = [op |-> "getSecurityToken",
                 token |-> IF GetSecurityTokenThrows(config.store)
                             THEN NoToken
                             ELSE GetSecurityTokenOf(config.store),
                 domain |-> Undefined,
                 threw |-> GetSecurityTokenThrows(config.store),
                 before |-> config.store]]
  /\ UNCHANGED <<authVars, lastOp, dialog, bridge, bus, verifies, autocomplete>>

\* flush(): empties the config store.
Flush ==
  /\ config' = [store |-> EmptyStore,
                last |-> [op |-> "flush", token |-> NoToken,
                          domain |-> Undefined, threw |-> FALSE,
                          before |-> config.store],
                written |-> NoToken]
  /\ UNCHANGED <<authVars, lastOp, dialog, bridge, bus, verifies, autocomplete>>

SettingsNext ==
  \/ \E token \in TokenValues : SetSecurityToken(token)
  \/ \E domain \in DomainValues : SetDomain(domain)
  \/ GetSecurityToken
  \/ Flush

SpecSettings == SettingsInit /\ [][SettingsNext]_vars

\* ------------------------------------------------------------------------
\* Edit-group autocomplete

\* Number of load-users events.
MaxLoads == 2

\* The ids of the users the back-end returns.
UserIds == {"u1", "u2"}

\* The lists of users a load-users event delivers.
UserLists ==
  {<<>>} \cup {<<a>> : a \in UserIds}
         \cup {<<a, b>> : <<a, b>> \in {p \in UserIds \X UserIds : p[1] # p[2]}}

\* The item of the ul rendered when the list of users is empty.
EmptyItem == "empty"

\* The load() chains: the load-users event of the chain, the item whose
\* template it waits for and the users still to render.
Chains ==
  [load : 1 .. MaxLoads, rendering : UserIds \cup {EmptyItem},
   rest : {users \in UserLists : Len(users) <= 1}]

AutocompleteInit ==
  /\ AuthAtRest
  /\ OthersInit

\* setState(state): the classes of the body, the class changes emitted for
\* the iframe, applied in the order of their emission, and the classes of
\* .autocomplete-content.
SetState(a, state) ==
  IF state = "loading"
    THEN [a EXCEPT !.body = (@ \ {"hidden", "loaded"}) \cup {"loading"},
                   !.iframe = ((@ \ {"hidden"}) \ {"loaded"}) \cup {"loading"},
                   !.content = (@ \ {"loaded"}) \cup {"loading"}]
  ELSE IF state = "loaded"
    THEN [a EXCEPT !.body = (@ \ {"loading"}) \cup {"loaded"},
                   !.iframe = (@ \ {"loading"}) \cup {"loaded"},
                   !.content = (@ \ {"loading"}) \cup {"loaded"}]
  ELSE [a EXCEPT !.body = (@ \ {"loading", "loaded"}) \cup {"hidden"},
                 !.iframe = ((@ \ {"loaded"}) \ {"loading"}) \cup {"hidden"},
                 !.content = @ \ {"loading", "loaded"}]

\* reset(): currentUsers and the ul are emptied.
ResetList(a) == [a EXCEPT !.currentUsers = {}, !.ul = {}]

\* currentUsers[id] = user.
PutUser(users, id, n) ==
  {u \in users : u.id # id} \cup {[id |-> id, load |-> n]}

\* currentUsers[id].
UserOf(users, id) ==
  IF \E u \in users : u.id = id
    THEN CHOOSE u \in users : u.id = id
    ELSE NoUser

\* load(users) of the n-th load-users event, up to its first wait: the first
\* user is put in currentUsers and its item template is requested; with no
\* user the template of the empty item is requested.
Load(a, users, n) ==
  IF users = <<>>
    THEN [a EXCEPT !.chains = @ \cup
            {[load |-> n, rendering |-> EmptyItem, rest |-> <<>>]}]
    ELSE [a EXCEPT !.currentUsers = PutUser(@, Head(users), n),
                   !.chains = @ \cup
            {[load |-> n, rendering |-> Head(users), rest |-> Tail(users)]}]

\* The reset event.
resetHandler ==
  /\ autocomplete' =
       [SetState(ResetList(autocomplete), "hidden") EXCEPT
          !.cleared = TRUE,
          !.last = [op |-> "reset", selected |-> NoUser]]
  /\ UNCHANGED <<authVars, lastOp, dialog, bridge, bus, verifies, config>>

\* The loading event.
loadingHandler ==
  /\ autocomplete' =
       [SetState(ResetList(autocomplete), "loading") EXCEPT
          !.cleared = TRUE,
          !.last = [op |-> "loading", selected |-> NoUser]]
  /\ UNCHANGED <<authVars, lastOp, dialog, bridge, bus, verifies, config>>

\* The load-users event: load(users) is started and not waited for.
loadUsersHandler(users) ==
  /\ autocomplete.loads < MaxLoads
  /\ autocomplete' =
       [SetState(Load(autocomplete, users, autocomplete.loads + 1), "loaded")
          EXCEPT !.loads = @ + 1,
                 !.cleared = FALSE,
                 !.last = [op |-> "load-users", selected |-> NoUser]]
  /\ UNCHANGED <<authVars, lastOp, dialog, bridge, bus, verifies, config>>

\* The template a load() chain waits for is appended to the ul: the chain
\* goes on with its next user, or ends with resize().
RenderReturn(c) ==
  /\ c \in autocomplete.chains
  /\ autocomplete' =
       [autocomplete EXCEPT
          !.ul = @ \cup {c.rendering},
          !.currentUsers = IF c.rest = <<>> THEN @
                           ELSE PutUser(@, Head(c.rest), c.load),
          !.chains = IF c.rest = <<>> THEN @ \ {c}
                     ELSE (@ \ {c}) \cup
                            {[load |-> c.load, rendering |-> Head(c.rest),
                              rest |-> Tail(c.rest)]},
          !.last = [op |-> "render", selected |-> NoUser]]
  /\ UNCHANGED <<authVars, lastOp, dialog, bridge, bus, verifies, config>>

\* A click on an item of the ul that shows a user.
onSelectUser(id) ==
  /\ id \in autocomplete.ul \ {EmptyItem}
  /\ autocomplete' =
       [SetState(autocomplete, "hidden") EXCEPT
          !.last = [op |-> "select",
                    selected |-> UserOf(autocomplete.currentUsers, id)]]
  /\ UNCHANGED <<authVars, lastOp, dialog, bridge, bus, verifies, config>>

AutocompleteNext ==
  \/ resetHandler
  \/ loadingHandler
  \/ \E users \in UserLists : loadUsersHandler(users)
  \/ \E c \in Chains : RenderReturn(c)
  \/ \E id \in UserIds : onSelectUser(id)

SpecAutocomplete == AutocompleteInit /\ [][AutocompleteNext]_vars

\* ------------------------------------------------------------------------
\* Properties of AuthController.login()

Has(trace, ev) == \E i \in DOMAIN trace : trace[i] = ev

\* Every occurrence of ev comes after an occurrence of before.
Precedes(trace, before, ev) ==
  \A j \in DOMAIN trace :
    trace[j] = ev => \E i \in 1 .. (j - 1) : trace[i] = before

Occurrences(trace, ev) == Cardinality({i \in DOMAIN trace : trace[i] = ev})

StepCalls == {"csrf.call", "login.call", "mfa.call", "sync.call", "init.call"}
SuccessOutcomes == {"emit.success", "emit.SUCCESS"}
FailureOutcomes == {"emit.failed", "emit.error"}

IsSuccessMessage(m) ==
  \/ m.channel = "passbolt.auth.login-success"
  \/ (m.channel = "requestId" /\ m.status = "SUCCESS")

IsFailureMessage(m) ==
  \/ m.channel = "passbolt.auth.login-failed"
  \/ (m.channel = "requestId" /\ m.status = "ERROR")

Messages(run) == {run.out[i] : i \in DOMAIN run.out}

\* C1: the steps of a login() run are strictly sequential: the crypto login
\* is called only after the CSRF retrieval succeeded, the MFA check only after
\* the crypto login succeeded, the settings sync only after the crypto login
\* succeeded and the MFA check (when it was called) completed, and a success
\* outcome is delivered only after the settings sync completed or was replaced
\* by the defaults; no step is called twice.
C1_StepsSequential ==
  \A r \in DOMAIN runs :
    LET trace == runs[r].trace
    IN  /\ Precedes(trace, "csrf.ok", "login.call")
        /\ Precedes(trace, "login.ok", "mfa.call")
        /\ Precedes(trace, "login.ok", "sync.call")
        /\ Has(trace, "mfa.call") => Precedes(trace, "mfa.ok", "sync.call")
        /\ \A ev \in SuccessOutcomes :
             Has(trace, ev) =>
               \/ Precedes(trace, "sync.ok", ev)
               \/ Precedes(trace, "setDefaults", ev)
        /\ \A ev \in StepCalls : Occurrences(trace, ev) <= 1

\* A run of the quick access went through all the steps, the MFA check
\* included, and delivered the SUCCESS response.
C1_Witness ==
  \E r \in DOMAIN runs :
    /\ Has(runs[r].trace, "mfa.ok")
    /\ Has(runs[r].trace, "sync.ok")
    /\ Has(runs[r].trace, "emit.SUCCESS")

\* The event that fails a run, if any, and the message of its error.
FailedStep(trace) ==
  IF Has(trace, "csrf.fail") THEN "csrf failed"
  ELSE IF Has(trace, "login.fail") THEN "login failed"
  ELSE IF Has(trace, "mfa.fail") THEN "mfa required"
  ELSE "none"

\* C2: when the CSRF retrieval, the crypto login or the MFA check failed, the
\* ended run called no later step, delivered no success outcome, and delivered
\* a failure outcome that carries the error message of the failed step.
C2_FailureDelivered ==
  \A r \in DOMAIN runs :
    LET run == runs[r]
    IN  (run.pc = "done" /\ FailedStep(run.trace) # "none") =>
          /\ \A ev \in {"sync.call", "init.call", "store"} : ~Has(run.trace, ev)
          /\ Has(run.trace, "login.fail") => ~Has(run.trace, "mfa.call")
          /\ Has(run.trace, "csrf.fail") => ~Has(run.trace, "login.call")
          /\ \A m \in Messages(run) : ~IsSuccessMessage(m)
          /\ \E m \in Messages(run) :
               IsFailureMessage(m) /\ m.message = FailedStep(run.trace)

\* C3: when the settings sync failed after the earlier steps succeeded, the
\* ended run applied the default settings, delivered the success outcome and
\* delivered no failure outcome.
C3_SyncFailureStillSuccess ==
  \A r \in DOMAIN runs :
    LET run == runs[r]
    IN  (run.pc = "done" /\ Has(run.trace, "sync.fail")) =>
          /\ Has(run.trace, "setDefaults")
          /\ \E m \in Messages(run) : IsSuccessMessage(m)
          /\ \A m \in Messages(run) : ~IsFailureMessage(m)

\* C4: the delivery mode depends on the originating worker alone: a run of the
\* login form emits only to the Auth worker of its tab, its outcome on the
\* login-success or login-failed channel, and nothing on its own port; a run
\* of any other worker emits only on the port of that worker, under the
\* request id, with status SUCCESS or ERROR.
C4_RoutingByOrigin ==
  \A r \in DOMAIN runs :
    LET run == runs[r]
    IN  \A m \in Messages(run) :
          IF IsAuthForm(run.worker)
            THEN /\ m.to = <<"Auth", run.worker.tab>>
                 /\ m.to # PortOf(run.worker)
                 /\ m.channel \in {"passbolt.auth.login-processing",
                                   "passbolt.auth.login-success",
                                   "passbolt.auth.login-failed"}
            ELSE /\ m.to = PortOf(run.worker)
                 /\ m.to[1] # "Auth"
                 /\ m.channel = "requestId"
                 /\ m.requestId = run.requestId
                 /\ m.status \in {"SUCCESS", "ERROR"}

\* A run of a page mod other than the login form failed and answered ERROR on
\* its own port.
C4_Witness ==
  \E r \in DOMAIN runs :
    /\ runs[r].worker.hasPageMod
    /\ ~IsAuthForm(runs[r].worker)
    /\ \E m \in Messages(runs[r]) : m.status = "ERROR"

\* C5: every login() call whose collaborator calls all returned has delivered
\* an outcome: a failure outcome when a step failed, a success outcome
\* otherwise, also when PassboltApp.init() failed, when the trusted domain is
\* no URL and when the Auth worker of the tab is not registered any more.
C5_OutcomeDelivered ==
  \A r \in DOMAIN runs :
    LET run == runs[r]
    IN  run.pc = "done" =>
          IF FailedStep(run.trace) # "none"
            THEN \E m \in Messages(run) : IsFailureMessage(m)
            ELSE \E m \in Messages(run) :
                   IsSuccessMessage(m) \/ IsFailureMessage(m)

\* C6 as stated: once the crypto login succeeded in a run asked to remember,
\* the ended run has stored the passphrase, whatever the later steps did.
C6_StoredWhateverFollows ==
  \A r \in DOMAIN runs :
    LET run == runs[r]
    IN  (run.pc = "done" /\ Truthy(run.remember) /\ Has(run.trace, "login.ok"))
          => Has(run.trace, "store")

\* C6: in a run asked to remember, the passphrase is stored when the settings
\* sync returns, whether it succeeded or failed and whatever happens to the
\* delivery of the success; a run whose MFA check failed stores nothing.
C6_StoredUnlessMfaFails ==
  \A r \in DOMAIN runs :
    LET run == runs[r]
    IN  /\ ( /\ run.pc \in {"init", "done"}
             /\ Truthy(run.remember)
             /\ Has(run.trace, "login.ok")
             /\ ~Has(run.trace, "mfa.fail") )
             => /\ Has(run.trace, "store")
                /\ remembered = [set |-> TRUE, passphrase |-> run.passphrase,
                                 seconds |-> run.remember, age |-> 0]
        /\ Has(run.trace, "mfa.fail") => ~Has(run.trace, "store")

\* A run asked to remember with a number of seconds stored the passphrase
\* although the settings sync failed and the success was not delivered.
C6_Witness ==
  \E r \in DOMAIN runs :
    /\ runs[r].pc = "done"
    /\ runs[r].remember = "300"
    /\ Has(runs[r].trace, "sync.fail")
    /\ Has(runs[r].trace, "throw")
    /\ Has(runs[r].trace, "store")
    /\ remembered.set

\* C11: after a successful login() asked to remember, the cache was given the
\* passphrase of the run with the remember argument as duration; the
\* passphrase is retrievable as long as less than 300 seconds have elapsed
\* since it was stored, and absent once 300 seconds have elapsed.
C11_RememberedFor300Seconds ==
  \A r \in DOMAIN runs :
    LET run == runs[r]
    IN  (Truthy(run.remember) /\ \E m \in Messages(run) : IsSuccessMessage(m))
          => /\ remembered.seconds = run.remember
             /\ remembered.age < 300 =>
                  remembered.set /\ remembered.passphrase = run.passphrase
             /\ remembered.age >= 300 =>
                  ~remembered.set /\ remembered.passphrase # run.passphrase

\* 300 seconds after it was stored the passphrase is gone.
C11_Witness ==
  \E r \in DOMAIN runs :
    /\ runs[r].remember = "300"
    /\ \E m \in Messages(runs[r]) : IsSuccessMessage(m)
    /\ ~remembered.set
    /\ remembered.age >= 300

\* C7: a run with a false or absent remember never stores the passphrase, and
\* the cache stays empty as long as no run was asked to remember.
C7_NoStoreWithoutRemember ==
  /\ \A r \in DOMAIN runs :
       ~Truthy(runs[r].remember) => ~Has(runs[r].trace, "store")
  /\ (\A r \in DOMAIN runs : ~Truthy(runs[r].remember))
       => remembered = NoPassphrase

\* The happy path with remember false: success delivered, cache empty.
C7_Witness ==
  \E r \in DOMAIN runs :
    /\ runs[r].remember = "false"
    /\ Has(runs[r].trace, "csrf.ok")
    /\ Has(runs[r].trace, "sync.ok")
    /\ \E m \in Messages(runs[r]) : IsSuccessMessage(m)
    /\ remembered = NoPassphrase

\* The redirect path that is kept: a string that starts with a slash.
KeptRedirectPath(redirect) ==
  IF redirect.type = "string" /\ Len(redirect.str) > 0
       /\ Head(redirect.str) = "/"
    THEN redirect.str
    ELSE <<>>

\* C8: the redirect URL of the login-success event is the trusted domain
\* followed by the redirect path when that path is a string starting with a
\* slash, and the URL of the trusted domain alone otherwise (with the root
\* path when the trusted domain has no path).
C8_RedirectUrl ==
  \A r \in DOMAIN runs :
    \A m \in Messages(runs[r]) :
      m.channel = "passbolt.auth.login-success" =>
        LET joined == trustedDomain.str \o KeptRedirectPath(runs[r].redirect)
        IN  /\ trustedDomain.type = "string"
            /\ Head(joined) = Origin
            /\ m.redirect = IF joined = <<Origin>> THEN <<Origin, "/">>
                                                   ELSE joined

\* A success event carries the trusted domain joined with the path "/a".
C8_Witness ==
  \E r \in DOMAIN runs :
    /\ runs[r].redirect.str = <<"/", "a">>
    /\ \E m \in Messages(runs[r]) :
         /\ m.channel = "passbolt.auth.login-success"
         /\ m.redirect = <<Origin, "/", "a">>

\* C9: in a run of the login form the tab id is recorded, and the CSRF
\* retrieval is called only after the processing signal was emitted, as the
\* first message of the run, to the Auth worker of the originating tab; a run
\* of another worker emits no processing signal and records no tab id.
C9_ProcessingBeforeCsrf ==
  \A r \in DOMAIN runs :
    LET run == runs[r]
    IN  run.pc # "idle" =>
          IF IsAuthForm(run.worker)
            THEN /\ run.tabId = run.worker.tab
                 /\ Precedes(run.trace, "emit.processing", "csrf.call")
                 /\ Has(run.trace, "csrf.call") =>
                      /\ run.out[1].channel = "passbolt.auth.login-processing"
                      /\ run.out[1].to = <<"Auth", run.worker.tab>>
            ELSE /\ run.tabId = NoTab
                 /\ ~Has(run.trace, "emit.processing")
                 /\ \A m \in Messages(run) :
                      m.channel # "passbolt.auth.login-processing"

\* A run of the login form of tab 2 signalled the processing to the Auth
\* worker of tab 2 and called the CSRF retrieval.
C9_Witness ==
  \E r \in DOMAIN runs :
    /\ IsAuthForm(runs[r].worker)
    /\ runs[r].worker.tab = 2
    /\ runs[r].pc = "csrf"
    /\ runs[r].out[1].to = <<"Auth", 2>>

\* C10 as stated: the MFA check is called exactly when the requester is not
\* the login form.
C10_MfaUnlessAuthForm ==
  \A r \in DOMAIN runs :
    Has(runs[r].trace, "login.ok") =>
      (Has(runs[r].trace, "mfa.call") <=> ~IsAuthForm(runs[r].worker))

\* C10: the MFA check is called exactly when the requesting worker has no
\* page mod: it is skipped for the login form and for every other page mod
\* worker, and called for the quick access.
C10_MfaUnlessPageMod ==
  \A r \in DOMAIN runs :
    /\ Has(runs[r].trace, "login.ok") =>
         (Has(runs[r].trace, "mfa.call") <=> ~runs[r].worker.hasPageMod)
    /\ Has(runs[r].trace, "mfa.call") => Has(runs[r].trace, "login.ok")

\* A run of a page mod other than the login form passed the crypto login
\* and went on to the settings sync without MFA check.
C10_Witness ==
  \E r \in DOMAIN runs :
    /\ runs[r].worker.name = "App"
    /\ Has(runs[r].trace, "sync.call")
    /\ ~Has(runs[r].trace, "mfa.call")

\* ------------------------------------------------------------------------
\* Properties of the worker registry

\* C12: a completion with status ERROR and fewer than three attempts shows the
\* error on the label and keeps the view; one with status ERROR and three
\* attempts or more loads the failure view and shows nothing on the label; a
\* completion with another status leaves the DOM as it found it.  Hence the
\* view is the failure view exactly when an ERROR with three attempts or more
\* was received: after ERROR 1 and ERROR 2 the form shows the inline error,
\* after ERROR 3 the failure view.
C12_InlineErrorThenFailureView ==
  /\ dialog.received # <<>> =>
       LET c == dialog.received[Len(dialog.received)]
           b == dialog.before
       IN  /\ (c.status = "ERROR" /\ c.attempts < 3) =>
                dialog.after = [processing |-> FALSE, labelError |-> TRUE,
                                view |-> b.view]
           /\ (c.status = "ERROR" /\ c.attempts >= 3) =>
                dialog.after = [processing |-> FALSE,
                                labelError |-> b.labelError,
                                view |-> "failure"]
           /\ c.status # "ERROR" => dialog.after = b
  /\ dialog.dom.view = "failure" <=>
       \E i \in DOMAIN dialog.received :
         dialog.received[i].status = "ERROR" /\ dialog.received[i].attempts >= 3
  /\ dialog.dom.labelError <=>
       \E i \in DOMAIN dialog.received :
         dialog.received[i].status = "ERROR" /\ dialog.received[i].attempts < 3

\* Three failures in a row, with attempts 1, 2 and 3: the third one found the
\* form with the inline error and loaded the failure view.
C12_Witness ==
  /\ dialog.received = <<[status |-> "ERROR", attempts |-> 1],
                         [status |-> "ERROR", attempts |-> 2],
                         [status |-> "ERROR", attempts |-> 3]>>
  /\ dialog.before.view = "form"
  /\ dialog.before.labelError
  /\ dialog.dom.view = "failure"

\* C21 as stated: a click on the submit button sends the passphrase entered
\* to the add-on as its last message; with the remember box unchecked this is
\* all it sends, with the box checked it first requests to remember the
\* passphrase entered for 300 seconds.
C21_ClickAlwaysSubmits ==
  dialog.input.kind = "click" =>
    /\ ~dialog.input.threw
    /\ dialog.input.emitted =
         IF dialog.input.checked
           THEN <<RememberRequest(dialog.input.entered, 300),
                  SubmitMessage(dialog.input.entered)>>
           ELSE <<SubmitMessage(dialog.input.entered)>>

\* What the input handled last left as it found it.
SentUnchanged ==
  /\ bridge.requests = bridge.last.requests
  /\ Len(bridge.sent) = bridge.last.sent

PageUnchanged == Len(bridge.page) = bridge.last.page

\* The requests of the bridge that stem from a page event or channel.
RequestsOf(origins) ==
  {id \in DOMAIN bridge.requests : bridge.requests[id].origin \in origins}

\* The events emitted to the page that carry the answer of a request.
PageEventsOf(id) ==
  {i \in DOMAIN bridge.page :
     \E j \in DOMAIN bridge.page[i].ids : bridge.page[i].ids[j] = id}

\* How often the bridge sent a request id to the add-on.
TimesSent(id) ==
  Cardinality({i \in DOMAIN bridge.sent :
                 bridge.sent[i].kind = "request" /\ bridge.sent[i].id = id})

\* C22: a 'passbolt.group.edit.save' event of the page makes the bridge send
\* one request on the save channel and nothing else; as long as the request is
\* pending the page gets no event for it; once it is answered the page has
\* got exactly one event with the answer: group_edit_save_success when the
\* request succeeded, group_edit_save_error when it failed.
C22_SaveOneOutcome ==
  /\ (bridge.last.kind = "page" /\ bridge.last.name = "passbolt.group.edit.save")
       => /\ Len(bridge.requests) = Len(bridge.last.requests) + 1
          /\ Len(bridge.sent) = bridge.last.sent + 1
          /\ PageUnchanged
  /\ \A id \in RequestsOf({"passbolt.group.edit.save"}) :
       LET req == bridge.requests[id]
           events == PageEventsOf(id)
       IN  /\ req.channel = "passbolt.group.edit.save"
           /\ TimesSent(id) = 1
           /\ req.status = "pending" => events = {}
           /\ req.status # "pending" =>
                /\ Cardinality(events) = 1
                /\ \A i \in events :
                     /\ bridge.page[i].ids = <<id>>
                     /\ bridge.page[i].name =
                          IF req.status = "SUCCESS"
                            THEN "group_edit_save_success"
                            ELSE "group_edit_save_error"

\* Two saves, one answered with SUCCESS and one with ERROR: the page got the
\* success of the one and the error of the other.
C22_Witness ==
  /\ Len(bridge.requests) = 2
  /\ bridge.requests[1].origin = "passbolt.group.edit.save"
  /\ bridge.requests[2].origin = "passbolt.group.edit.save"
  /\ bridge.requests[1].status = "ERROR"
  /\ bridge.requests[2].status = "SUCCESS"
  /\ bridge.page = <<PageEvent("group_edit_save_success", "", <<2>>),
                     PageEvent("group_edit_save_error", "", <<1>>)>>

GroupUserEvents ==
  {"passbolt.group.edit.remove_group_user", "passbolt.group.edit.edit_group_user"}

\* C23: for a page event that removes or edits a group user, the bridge first
\* requests the removal or the edition; it requests the change list only once
\* that request was answered with SUCCESS, and emits group_users_updated, of
\* type deleted or updated and with the answers of both requests, only once
\* the change list was answered with SUCCESS too; a request answered with
\* ERROR is followed by no further request and no event to the page.
C23_ChangeListAfterSuccess ==
  \A id \in RequestsOf(GroupUserEvents) :
    LET req == bridge.requests[id]
        removal == req.origin = "passbolt.group.edit.remove_group_user"
        followers == {n \in DOMAIN bridge.requests :
                        bridge.requests[n].chain = <<id>>}
    IN  /\ req.stage \in {1, 2}
        /\ req.stage = 1 =>
             /\ req.chain = <<>>
             /\ req.channel = IF removal
                                THEN "passbolt.group.edit.remove-group_user"
                                ELSE "passbolt.group.edit.edit-group_user"
             /\ Cardinality(followers) = IF req.status = "SUCCESS" THEN 1 ELSE 0
             /\ req.status # "SUCCESS" => PageEventsOf(id) = {}
        /\ req.stage = 2 =>
             /\ req.channel = "passbolt.group.edit.get_group_users_change_list"
             /\ Len(req.chain) = 1
             /\ req.chain[1] < id
             /\ bridge.requests[req.chain[1]].status = "SUCCESS"
             /\ bridge.requests[req.chain[1]].origin = req.origin
             /\ bridge.requests[req.chain[1]].stage = 1
             /\ Cardinality(PageEventsOf(id)) =
                  IF req.status = "SUCCESS" THEN 1 ELSE 0
             /\ \A i \in PageEventsOf(id) :
                  bridge.page[i] =
                    PageEvent("passbolt.plugin.group.edit.group_users_updated",
                              IF removal THEN "deleted" ELSE "updated",
                              <<req.chain[1], id>>)
             /\ PageEventsOf(req.chain[1]) = PageEventsOf(id)

\* A removal whose request and change list both succeeded, and an edition
\* whose request failed: the page got the event of the removal only.
C23_Witness ==
  /\ Len(bridge.requests) = 3
  /\ bridge.requests[1].origin = "passbolt.group.edit.edit_group_user"
  /\ bridge.requests[1].status = "ERROR"
  /\ bridge.requests[2].origin = "passbolt.group.edit.remove_group_user"
  /\ bridge.requests[2].status = "SUCCESS"
  /\ bridge.requests[3].chain = <<2>>
  /\ bridge.requests[3].status = "SUCCESS"
  /\ bridge.page =
       <<PageEvent("passbolt.plugin.group.edit.group_users_updated", "deleted",
                   <<2, 3>>)>>

\* The stores the three keys of the token can make.
TokenStores ==
  [code : CodeValues, color : ColorValues, textColor : ColorValues,
   trustedDomain : {Undefined}]

\* C24: a getSecurityToken() called after a setSecurityToken(t) that returned,
\* with no flush since, returns a token with the code, color and textcolor of
\* the last such t; called with no token set it throws; and on any store it
\* throws exactly when one of the three keys is undefined, and otherwise
\* returns the three stored values.
C24_TokenRoundTrip ==
  /\ config.last.op = "getSecurityToken" =>
       IF config.written = NoToken
         THEN config.last.threw
         ELSE /\ ~config.last.threw
              /\ config.last.token.code = config.written.code
              /\ config.last.token.color = config.written.color
              /\ config.last.token.textcolor = config.written.textcolor
  /\ \A store \in TokenStores :
       /\ GetSecurityTokenThrows(store) <=>
            Undefined \in {store.code, store.color, store.textColor}
       /\ ~GetSecurityTokenThrows(store) =>
            /\ GetSecurityTokenOf(store).code = store.code
            /\ GetSecurityTokenOf(store).color = store.color
            /\ GetSecurityTokenOf(store).textcolor = store.textColor

\* A token with two different colours was set, then a domain, and the token
\* was read back.
C24_Witness ==
  /\ config.last.op = "getSecurityToken"
  /\ ~config.last.threw
  /\ config.written = [defined |-> TRUE, code |-> "ABC", color |-> "#fff",
                       textcolor |-> "#ff3a3a"]
  /\ config.last.token = config.written
  /\ config.store.trustedDomain = "https://www.passbolt.com"

\* The outcome messages a login() call delivered, in order.
OutcomesOf(run) ==
  SelectSeq(run.out, LAMBDA m : IsSuccessMessage(m) \/ IsFailureMessage(m))

\* C25: whatever the interleaving of the collaborator completions of the
\* login() calls in flight, a call delivers at most one outcome message: never
\* a success and a failure, never the same outcome twice.
C25_AtMostOneOutcome ==
  \A r \in DOMAIN runs : Len(OutcomesOf(runs[r])) <= 1

\* Two calls overlapped and both ended: the second one was made while the
\* first one was suspended; one delivered a success and the other a failure.
C25_Witness ==
  /\ runs[1].pc = "done"
  /\ runs[2].pc = "done"
  /\ runs[2].during = {1}
  /\ Has(runs[1].trace, "init.ok")
  /\ Len(OutcomesOf(runs[1])) = 1
  /\ IsSuccessMessage(OutcomesOf(runs[1])[1])
  /\ Has(runs[2].trace, "login.fail")
  /\ Len(OutcomesOf(runs[2])) = 1
  /\ IsFailureMessage(OutcomesOf(runs[2])[1])

\* C26: when login() calls of login-form workers of different tabs are in
\* flight together, the processing signal and the outcome of each call go to
\* the Auth worker of the tab of the worker that made the call, never to the
\* Auth worker of another tab.
C26_RoutedToOwnTab ==
  \A r \in DOMAIN runs :
    IsAuthForm(runs[r].worker) =>
      \A m \in Messages(runs[r]) : m.to = <<"Auth", runs[r].worker.tab>>

\* The login form of tab 1 made a call which still waits for a collaborator;
\* meanwhile the login form of tab 2 made a call which ended with a success
\* delivered to the Auth worker of tab 2.
C26_Witness ==
  /\ IsAuthForm(runs[1].worker) /\ runs[1].worker.tab = 1
  /\ runs[1].pc \in {"csrf", "login", "mfa", "sync", "init"}
  /\ \E m \in Messages(runs[1]) :
        m.channel = "passbolt.auth.login-processing" /\ m.to = <<"Auth", 1>>
  /\ IsAuthForm(runs[2].worker) /\ runs[2].worker.tab = 2
  /\ runs[2].pc = "done"
  /\ runs[2].during = {1}
  /\ \E m \in Messages(runs[2]) :
        m.channel = "passbolt.auth.login-processing" /\ m.to = <<"Auth", 2>>
  /\ \E m \in Messages(runs[2]) :
        m.channel = "passbolt.auth.login-success" /\ m.to = <<"Auth", 2>>

\* C27: once an event was handled, the autocomplete is in exactly one of the
\* states loading, loaded and hidden: the body carries exactly one of the
\* three state classes, and so does the iframe after the class changes
\* emitted for it.
C27_ExactlyOneState ==
  autocomplete.last.op \in {"reset", "loading", "load-users", "select"} =>
    /\ Cardinality(autocomplete.body \cap StateClasses) = 1
    /\ Cardinality(autocomplete.iframe \cap StateClasses) = 1

\* C28: currentUsers is empty from a reset or loading event to the next
\* load-users event, and otherwise holds only users of the most recent
\* load-users event, whatever the interleaving with the rendering of the
\* loads; a user-selected emission carries a user of the most recent load.
C28_OnlyMostRecentLoad ==
  /\ autocomplete.cleared => autocomplete.currentUsers = {}
  /\ \A u \in autocomplete.currentUsers : u.load = autocomplete.loads
  /\ autocomplete.last.op = "select" =>
        /\ autocomplete.last.selected # NoUser
        /\ autocomplete.last.selected.load = autocomplete.loads

C14_OnlyListedRelayed ==
  /\ (bridge.last.kind = "page" /\ bridge.last.name \notin PageListeners)
       => SentUnchanged /\ PageUnchanged
  /\ (bridge.last.kind = "extension"
        /\ bridge.last.name \notin ExtensionHandlers)
       => PageUnchanged /\ SentUnchanged
  /\ \A id \in DOMAIN bridge.requests :
       bridge.requests[id].origin \in PageListeners \cup ExtensionHandlers

\* The page dispatched a name without listener after the bridge had relayed
\* another event.
C14_Witness ==
  /\ bridge.last.kind = "page"
  /\ bridge.last.name \notin PageListeners
  /\ bridge.last.sent > 0
  /\ SentUnchanged

\* C15: the first response with the id of a pending request settles it with
\* its status; a response with the id of a settled request, or with an id no
\* request has, changes no request and emits nothing; a settled request keeps
\* its outcome.
C15_SettlesOnce ==
  /\ bridge.last.kind = "response" =>
       LET id == bridge.last.id
           before == bridge.last.requests
       IN  IF id \in DOMAIN before /\ before[id].status = "pending"
             THEN bridge.requests[id].status = bridge.last.status
             ELSE SentUnchanged /\ PageUnchanged
  /\ \A id \in DOMAIN bridge.last.requests :
       bridge.last.requests[id].status # "pending"
         => bridge.requests[id].status = bridge.last.requests[id].status

\* A request resolved by its first response got a second response, an ERROR.
C15_Witness ==
  /\ bridge.last.kind = "response"
  /\ bridge.last.id \in DOMAIN bridge.last.requests
  /\ bridge.last.requests[bridge.last.id].status = "SUCCESS"
  /\ bridge.last.status = "ERROR"
  /\ bridge.requests[bridge.last.id].status = "SUCCESS"

\* The handlers on() was called with for a channel, in the order of the calls.
RegisteredOn(channel) ==
  LET OfChannel(reg) == reg[1] = channel
      regs == SelectSeq(bus.registered, OfChannel)
  IN  [i \in 1 .. Len(regs) |-> regs[i][2]]

\* C16: an emit on a channel invokes the handlers registered with on() for
\* that channel, each registration once, in the order of the registrations,
\* and no handler of another channel; with no handler registered it invokes
\* nothing.
C16_EmitInvokesAllInOrder ==
  bus.last.op = "emit" =>
    /\ Len(bus.last.invoked) = Len(RegisteredOn(bus.last.channel))
    /\ \A i \in 1 .. Len(bus.last.invoked) :
         bus.last.invoked[i] = RegisteredOn(bus.last.channel)[i]

\* An emit on a channel with two different handlers, registered around the
\* handler of another channel.
C16_Witness ==
  /\ bus.last.op = "emit"
  /\ Len(bus.last.invoked) = 2
  /\ bus.last.invoked[1] # bus.last.invoked[2]
  /\ Len(bus.registered) = 3
  /\ bus.registered[2][1] # bus.last.channel

\* s ends with the tokens of t.
EndsWith(s, t) ==
  /\ Len(t) <= Len(s)
  /\ \A i \in 1 .. Len(t) : s[Len(s) - Len(t) + i] = t[i]

\* C19: a verify() whose auth.verify() is pending has emitted nothing; once it
\* returned, the controller has emitted exactly one response, on the port of
\* its worker and under its request id: SUCCESS with the verified message
\* when auth.verify() succeeded, ERROR with 'Could not verify server key.',
\* a space and the message of the error when it failed.
C19_VerifyOneResponse ==
  \A v \in DOMAIN verifies :
    LET run == verifies[v]
    IN  /\ run.pc \in {"idle", "verify"} => run.out = <<>>
        /\ run.pc \in {"verified", "failed"} =>
             /\ Len(run.out) = 1
             /\ run.out[1].to = PortOf(run.worker)
             /\ run.out[1].channel = "requestId"
             /\ run.out[1].requestId = run.requestId
        /\ run.pc = "verified" =>
             /\ run.out[1].status = "SUCCESS"
             /\ run.out[1].message = VerifiedMessage
        /\ run.pc = "failed" =>
             /\ run.out[1].status = "ERROR"
             /\ run.out[1].message[1] = CouldNotVerify[1]
             /\ run.error.type = "string" =>
                  EndsWith(run.out[1].message, run.error.str)

\* One verify() failed with an error that has a message, another succeeded.
C19_Witness ==
  \E v, w \in DOMAIN verifies :
    /\ verifies[v].pc = "failed"
    /\ verifies[v].error = [type |-> "string", str |-> <<"key", " ", "mismatch">>]
    /\ verifies[v].out[1].message =
         <<"Could not verify server key.", " ", "key", " ", "mismatch">>
    /\ verifies[w].pc = "verified"

\* A token with all its parts and hex colours.
WellFormedToken(token) ==
  /\ token.defined
  /\ token.code # Undefined
  /\ token.color \in {"#ff3a3a", "#fff"}
  /\ token.textcolor \in {"#ff3a3a", "#fff"}

\* C20: setSecurityToken(token) with a well-formed token returns and leaves
\* the store with the three keys of the token and the domain it had; with any
\* other token it throws and leaves the store as it was.  setDomain(domain)
\* with a URL returns and leaves the store with that domain and the token it
\* had; with undefined or another text it throws and leaves the store as it
\* was.
C20_ValidateThenWrite ==
  LET last == config.last
  IN  /\ last.op = "setSecurityToken" =>
           IF WellFormedToken(last.token)
             THEN /\ ~last.threw
                  /\ config.store =
                       [code |-> last.token.code, color |-> last.token.color,
                        textColor |-> last.token.textcolor,
                        trustedDomain |-> last.before.trustedDomain]
             ELSE last.threw /\ config.store = last.before
      /\ last.op = "setDomain" =>
           IF last.domain = "https://www.passbolt.com"
             THEN /\ ~last.threw
                  /\ config.store =
                       [last.before EXCEPT !.trustedDomain = last.domain]
             ELSE last.threw /\ config.store = last.before

\* A token whose text colour is no hex colour was refused while the store
\* held another token and a domain.
C20_Witness ==
  /\ config.last.op = "setSecurityToken"
  /\ config.last.token.defined
  /\ config.last.token.code = "ABC"
  /\ config.last.token.color = "#fff"
  /\ config.last.token.textcolor = "red"
  /\ config.last.threw
  /\ config.store = config.last.before
  /\ config.store.color = "#ff3a3a"
  /\ config.store.trustedDomain = "https://www.passbolt.com"

\* C17: after register(name, tabId, port) the lookup of the identity returns
\* exactly that port; after unregister(name, tabId) the lookup fails; and an
\* unregister of an identity that was absent leaves the registry as it was.
C17_RegisterGetUnregister ==
  /\ lastOp.op = "register" =>
       WorkerGet(lastOp.name, lastOp.tabId) = {lastOp.port}
  /\ lastOp.op = "unregister" =>
       /\ WorkerGet(lastOp.name, lastOp.tabId) = {}
       /\ (\A w \in lastOp.before :
             ~(w[1] = lastOp.name /\ w[2] = lastOp.tabId))
            => workers = lastOp.before

\* An identity that was absent is unregistered while another worker stays
\* registered.
C17_Witness ==
  /\ lastOp.op = "unregister"
  /\ lastOp.before = workers
  /\ workers # {}

\* C18: the registry holds at most one entry per identity (name, tabId), and
\* a register of an identity that is present replaces its entry: the lookup
\* returns the port registered last.
C18_OneWorkerPerIdentity ==
  /\ \A name \in WorkerNames, tabId \in Tabs :
       Cardinality(EntriesOf(name, tabId)) <= 1
  /\ \A v \in workers, w \in workers :
       (v[1] = w[1] /\ v[2] = w[2]) => v = w
  /\ lastOp.op = "register" =>
       /\ <<lastOp.name, lastOp.tabId, lastOp.port>> \in workers
       /\ \A w \in lastOp.before :
            (w[1] = lastOp.name /\ w[2] = lastOp.tabId /\ w[3] # lastOp.port)
              => w \notin workers

\* An identity registered with one port was registered again with another.
C18_Witness ==
  /\ lastOp.op = "register"
  /\ \E w \in lastOp.before :
       w[1] = lastOp.name /\ w[2] = lastOp.tabId /\ w[3] # lastOp.port
  /\ WorkerGet(lastOp.name, lastOp.tabId) = {lastOp.port}

====
